---- MODULE Spec2Model ----
(***************************************************************************)
(* Model of preview.py: find_available_port (the Port Finder),             *)
(* start_server (the Server), open_in_safari (the Launcher, a daemon       *)
(* thread) and the __main__ block that runs them.                          *)
(*                                                                         *)
(* The environment is the TCP port table of the host: the ports held by    *)
(* other processes (occupied), the ports whose bind fails for a reason     *)
(* other than address-in-use (denied), and the sockets this process holds  *)
(* (held).  errno 48 is EADDRINUSE on the platform the script targets      *)
(* (macOS: it opens Safari with `open -a`).                                *)
(***************************************************************************)
EXTENDS Integers, Sequences, FiniteSets, TLC

VARIABLES
    start_port,   \* find_available_port's argument
    port,         \* find_available_port's local `port`, then __main__'s `port`
    srv_port,     \* start_server's argument at the current recursion level
    pc,           \* position of the main thread
    exc,          \* the exception that ended the main thread, "none" while it runs
    exit_status,  \* the process's exit status, -1 while it runs
    t_pc,         \* position of the Launcher thread
    t_port,       \* open_in_safari's argument
    occupied,     \* ports bound by other processes
    denied,       \* ports whose bind fails with an errno other than 48
    held,         \* ports this process has a bound socket on
    out,          \* lines printed to standard output
    opens,        \* browser-open invocations made by the Launcher
    probes,       \* history: the binds find_available_port attempted
    binds,        \* history: the binds start_server attempted
    found,        \* history: the value find_available_port returned, -1 if none
    bound,        \* history: the port the Server bound, -1 if none
    env_changes   \* history: how often another process took or released a port

vars == <<start_port, port, srv_port, pc, exc, exit_status, t_pc, t_port,
          occupied, denied, held, out, opens, probes, binds, found, bound,
          env_changes>>

mainVars == <<start_port, port, srv_port, pc, exc, exit_status, held, probes,
              binds, found, bound>>

(***************************************************************************)
(* Program constants.                                                      *)
(***************************************************************************)
DefaultPort == 8000
SearchSpan == 100
EADDRINUSE == 48
MaxTcpPort == 2^16 - 1

(***************************************************************************)
(* Bounds of the model.                                                    *)
(***************************************************************************)
MaxBlock == 2
MaxEnvChanges == 2

ValidPorts == 0..MaxTcpPort

\* errno values of a bind that fails for another reason (EACCES, EADDRNOTAVAIL)
OtherErrnos == {13, 49}

\* Starting ports find_available_port is called with when checked on its own.
StartPorts == {DefaultPort, MaxTcpPort - SearchSpan, MaxTcpPort - SearchSpan + 1,
               MaxTcpPort}

\* Lengths of the run of occupied ports that starts at the starting port.
BlockLens == (0..MaxBlock) \cup ((SearchSpan - 1)..(SearchSpan + 2))

Block(s, n) == {q \in s..(s + n - 1) : q \in ValidPorts}

(***************************************************************************)
(* socketserver.TCPServer(("", p), ...): the outcomes of the bind.         *)
(***************************************************************************)
BindOutcomes(p) ==
    IF p \notin ValidPorts
    THEN {[kind |-> "OverflowError", errno |-> 0]}
    ELSE IF p \in denied
    THEN {[kind |-> "OSError", errno |-> e] : e \in OtherErrnos}
    ELSE IF p \in occupied \cup held
    THEN {[kind |-> "OSError", errno |-> EADDRINUSE]}
    ELSE {[kind |-> "ok", errno |-> 0]}

Attempt(p, r) == [port |-> p, kind |-> r.kind, errno |-> r.errno]

\* Mutant: every OSError is taken for address-in-use.
IsAddrInUse_AnyOSError(r) == r.kind = "OSError"

\* `e.errno == 48` of both except clauses
IsAddrInUse(r) == r.kind = "OSError" /\ r.errno = EADDRINUSE

\* Mutant: the candidate after the next one.
NextCandidate_Skip(p) == p + 2

\* `port += 1` of find_available_port
NextCandidate(p) == p + 1

\* Mutant: the search stops one candidate early.
Exhausted_OneEarly(p, s) == p >= s + SearchSpan

\* `port > start_port + 100`
Exhausted(p, s) == p > s + SearchSpan

\* Mutant: the retry binds the same port again.
RetryPort_Same(p) == p

\* `start_server(port + 1)`
RetryPort(p) == p + 1

\* Mutant: the thread is not made a daemon.
DaemonThread_Off == FALSE

\* safari_thread.daemon = True
DaemonThread == TRUE

\* The Launcher at process exit: a daemon thread still pending is abandoned.
AtExit(t) ==
    IF DaemonThread /\ t \in {"sleeping", "opening", "fallback"}
    THEN "abandoned" ELSE t

\* Mutant: a top-level handler swallows the exception and exits with 0.
Uncaught_ExitsClean(name) ==
    /\ pc' = "done"
    /\ exc' = name
    /\ exit_status' = 0
    /\ held' = {}
    /\ bound' = bound
    /\ t_pc' = AtExit(t_pc)

\* An exception nothing catches ends the process with a failure status.
Uncaught(name) ==
    /\ pc' = "done"
    /\ exc' = name
    /\ exit_status' = 1
    /\ held' = {}
    /\ bound' = bound
    /\ t_pc' = AtExit(t_pc)

InitWith(s) ==
    /\ start_port = s
    /\ port = s
    /\ srv_port = -1
    /\ pc = "find"
    /\ exc = "none"
    /\ exit_status = -1
    /\ t_pc = "unstarted"
    /\ t_port = -1
    /\ \E n \in BlockLens : \E extra \in SUBSET {s + n + 1, s + n + 2} :
          /\ occupied = Block(s, n) \cup (extra \cap ValidPorts)
          /\ denied \in {{}} \cup {{s + k} \cap ValidPorts : k \in {0, n, n + 1}}
    /\ held = {}
    /\ out = <<>>
    /\ opens = <<>>
    /\ probes = <<>>
    /\ binds = <<>>
    /\ found = -1
    /\ bound = -1
    /\ env_changes = 0

\* __main__: find_available_port(8000)
Init == InitWith(DefaultPort)

(***************************************************************************)
(* find_available_port                                                     *)
(***************************************************************************)
\* One pass of the loop body: the bind, and the except clause when it fails.
FinderBind ==
    /\ pc = "find"
    /\ \E r \in BindOutcomes(port) :
         /\ probes' = Append(probes, Attempt(port, r))
         /\ IF r.kind = "ok"
            THEN /\ held' = held \cup {port}
                 /\ pc' = "find_close"
                 /\ UNCHANGED <<port, exc, exit_status, t_pc, bound>>
            ELSE IF IsAddrInUse(r)
            THEN /\ port' = NextCandidate(port)
                 /\ IF Exhausted(port', start_port)
                    THEN Uncaught("PortExhausted")
                    ELSE UNCHANGED <<pc, exc, exit_status, held, t_pc, bound>>
            ELSE /\ Uncaught(r.kind)
                 /\ UNCHANGED port
    /\ UNCHANGED <<start_port, srv_port, t_port, occupied, denied, out, opens,
                   binds, found, env_changes>>

\* Mutant: the probe socket stays open (no with block, no close).
ProbeReleased_Leak(h, p) == h

\* The sockets held once TCPServer.__exit__ has closed the probe on p.
ProbeReleased(h, p) == h \ {p}

\* Leaving the with block releases the probe socket; `return port`.
FinderClose ==
    /\ pc = "find_close"
    /\ held' = ProbeReleased(held, port)
    /\ found' = port
    /\ pc' = "spawn"
    /\ UNCHANGED <<start_port, port, srv_port, exc, exit_status, t_pc, t_port,
                   occupied, denied, out, opens, probes, binds, bound, env_changes>>

FinderInit == \E s \in StartPorts : InitWith(s)

FinderNext == FinderBind \/ FinderClose

FinderSpec == FinderInit /\ [][FinderNext]_vars

(***************************************************************************)
(* __main__                                                                *)
(***************************************************************************)
\* Mutant: the Launcher is given the default port, not the one found.
LauncherArg_Default(p) == DefaultPort

\* args=(port,) of the Thread
LauncherArg(p) == p

\* Mutant: start_server is called with its default port.
ServerArg_Default(p) == DefaultPort

\* start_server(port)
ServerArg(p) == p

\* Mutant: the main thread waits for the Launcher to end (run() or join()).
StartReturns_Joined(t) == t \in {"t_done", "t_failed"}

\* safari_thread.start() returns at once: nothing the Launcher does is awaited.
StartReturns(t) == TRUE

\* Lines 64-66: the Launcher thread is created and started.
Spawn ==
    /\ pc = "spawn"
    /\ t_pc' = "sleeping"
    /\ t_port' = LauncherArg(port)
    /\ pc' = "started"
    /\ UNCHANGED <<start_port, port, srv_port, exc, exit_status, occupied, denied,
                   held, out, opens, probes, binds, found, bound, env_changes>>

\* Lines 69-70: the try block is entered and start_server is called.
EnterTry ==
    /\ pc = "started"
    /\ StartReturns(t_pc)
    /\ srv_port' = ServerArg(port)
    /\ pc' = "bind"
    /\ UNCHANGED <<start_port, port, exc, exit_status, t_pc, t_port, occupied,
                   denied, held, out, opens, probes, binds, found, bound,
                   env_changes>>

\* The positions of the main thread the try block of lines 69-73 covers.
InTry(p) == p \in {"bind", "serving"}

\* KeyboardInterrupt raised in the main thread.
Interrupt ==
    /\ pc # "done"
    /\ pc' = "done"
    /\ exc' = "KeyboardInterrupt"
    /\ IF InTry(pc)
       THEN /\ out' = Append(out, [line |-> "stopped", port |-> -1])
            /\ exit_status' = 0
       ELSE /\ out' = out
            /\ exit_status' = 1
    /\ held' = {}
    /\ t_pc' = AtExit(t_pc)
    /\ UNCHANGED <<start_port, port, srv_port, t_port, occupied, denied, opens,
                   probes, binds, found, bound, env_changes>>

(***************************************************************************)
(* start_server                                                            *)
(***************************************************************************)
\* The bind of line 18; on success the two prints and serve_forever, on
\* OSError the except clause of lines 23-28.
ServerBind ==
    /\ pc = "bind"
    /\ \E r \in BindOutcomes(srv_port) :
         /\ binds' = Append(binds, Attempt(srv_port, r))
         /\ IF r.kind = "ok"
            THEN /\ held' = held \cup {srv_port}
                 /\ bound' = srv_port
                 /\ out' = Append(out, [line |-> "running", port |-> srv_port])
                 /\ pc' = "serving"
                 /\ UNCHANGED <<srv_port, exc, exit_status, t_pc>>
            ELSE IF IsAddrInUse(r)
            THEN /\ out' = Append(out, [line |-> "in_use", port |-> srv_port])
                 /\ srv_port' = RetryPort(srv_port)
                 /\ UNCHANGED <<pc, exc, exit_status, held, bound, t_pc>>
            ELSE /\ Uncaught(r.kind)
                 /\ UNCHANGED <<srv_port, out>>
    /\ UNCHANGED <<start_port, port, t_port, occupied, denied, opens, probes,
                   found, env_changes>>

(***************************************************************************)
(* open_in_safari                                                          *)
(***************************************************************************)
\* time.sleep(1.5) ends; the url is built from the argument.
Wake ==
    /\ t_pc = "sleeping"
    /\ t_pc' = "opening"
    /\ UNCHANGED <<start_port, port, srv_port, pc, exc, exit_status, t_port,
                   occupied, denied, held, out, opens, probes, binds, found,
                   bound, env_changes>>

\* os.system returns the command's status (0, or not 0 when `open` or Safari
\* is missing or fails), or raises.
SystemOutcomes == {"zero", "nonzero", "raises"}

\* The try block of lines 36-38 leaves through the except clause only when
\* os.system raised.
TakesFallback(r) == r = "raises"

OpenSafari ==
    /\ t_pc = "opening"
    /\ \E r \in SystemOutcomes :
         /\ opens' = Append(opens, [via |-> "safari", port |-> t_port,
                                    result |-> r])
         /\ IF TakesFallback(r)
            THEN /\ t_pc' = "fallback"
                 /\ out' = out
            ELSE /\ t_pc' = "t_done"
                 /\ out' = Append(out, [line |-> "opening_safari", port |-> t_port])
    /\ UNCHANGED <<start_port, port, srv_port, pc, exc, exit_status, t_port,
                   occupied, denied, held, probes, binds, found, bound,
                   env_changes>>

\* webbrowser.open returns True or False, or raises: then the thread dies.
WebbrowserOutcomes == {"true", "false", "raises"}

OpenDefault ==
    /\ t_pc = "fallback"
    /\ \E r \in WebbrowserOutcomes :
         /\ opens' = Append(opens, [via |-> "default", port |-> t_port,
                                    result |-> r])
         /\ IF r = "raises"
            THEN /\ t_pc' = "t_failed"
                 /\ out' = out
            ELSE /\ t_pc' = "t_done"
                 /\ out' = Append(out, [line |-> "opening_default", port |-> t_port])
    /\ UNCHANGED <<start_port, port, srv_port, pc, exc, exit_status, t_port,
                   occupied, denied, held, probes, binds, found, bound,
                   env_changes>>

(***************************************************************************)
(* Other processes                                                         *)
(***************************************************************************)
\* The port the main thread binds next.
Candidate == IF pc = "bind" THEN srv_port ELSE port

RacePorts == {Candidate, Candidate + 1} \cap ValidPorts

\* The race the two independent availability checks leave open: from the
\* successful probe of find_available_port to the bind of start_server.
RaceWindow == pc \in {"find_close", "spawn", "started", "bind"}

\* Another process binds a free port before the main thread's next bind.
OtherTakes ==
    /\ RaceWindow
    /\ env_changes < MaxEnvChanges
    /\ \E p \in RacePorts \ (occupied \cup held) : occupied' = occupied \cup {p}
    /\ env_changes' = env_changes + 1
    /\ UNCHANGED <<start_port, port, srv_port, pc, exc, exit_status, t_pc,
                   t_port, denied, held, out, opens, probes, binds, found, bound>>

\* Another process closes its socket.
OtherReleases ==
    /\ RaceWindow
    /\ env_changes < MaxEnvChanges
    /\ \E p \in RacePorts \cap occupied : occupied' = occupied \ {p}
    /\ env_changes' = env_changes + 1
    /\ UNCHANGED <<start_port, port, srv_port, pc, exc, exit_status, t_pc,
                   t_port, denied, held, out, opens, probes, binds, found, bound>>

Next ==
    \/ FinderBind
    \/ FinderClose
    \/ Spawn
    \/ EnterTry
    \/ ServerBind
    \/ Interrupt
    \/ Wake
    \/ OpenSafari
    \/ OpenDefault
    \/ OtherTakes
    \/ OtherReleases

Spec == Init /\ [][Next]_vars

(***************************************************************************)
(* Properties of find_available_port, checked under FinderSpec.            *)
(***************************************************************************)
Window(s) == s..(s + SearchSpan)

FreeAt(q) == q \in ValidPorts /\ q \notin occupied

\* The attempt failed because the port was in use.
InUseFailure(a) == a.kind = "OSError" /\ a.errno = EADDRINUSE

OtherError(a) == a.kind # "ok" /\ ~InUseFailure(a)

\* A bind of find_available_port failed with an errno other than 48.
FinderOtherOSError ==
    \E i \in 1..Len(probes) : probes[i].kind = "OSError" /\ OtherError(probes[i])

FinderFinished == found # -1 \/ pc = "done"

\* C1: when the occupied ports do not change, some port of the window is free
\* and no bind fails with an error other than address-in-use, the value
\* returned is the smallest free port at or above the starting port (so the
\* starting port itself when it is free, the next one when only it is taken).
C1_SmallestFree ==
    (/\ FinderFinished
     /\ env_changes = 0
     /\ \E q \in Window(start_port) : FreeAt(q)
     /\ ~FinderOtherOSError)
    => /\ found >= start_port
       /\ FreeAt(found)
       /\ \A q \in start_port..(found - 1) : ~FreeAt(q)
       /\ (FreeAt(start_port) => found = start_port)
       /\ (~FreeAt(start_port) /\ FreeAt(start_port + 1) => found = start_port + 1)

C1_Witness ==
    /\ found = start_port + 1
    /\ start_port \in occupied
    /\ Len(probes) = 2

\* C2: when no port of the window is free, find_available_port ends by
\* raising "Could not find available port" after at most SearchSpan + 1 probes
\* and returns nothing.
C2_ExhaustionRaised ==
    /\ Len(probes) <= SearchSpan + 1
    /\ (/\ FinderFinished
        /\ env_changes = 0
        /\ \A q \in Window(start_port) : ~FreeAt(q)
        /\ ~FinderOtherOSError)
       => /\ exc = "PortExhausted"
          /\ found = -1
(***************************************************************************)
(* Properties of the whole program, checked under Spec.                    *)
(***************************************************************************)
Last(q) == q[Len(q)]

LauncherFinished == t_pc \in {"t_done", "t_failed"}

\* The invocations that were issued: the call did not raise.
Issued == {i \in 1..Len(opens) : opens[i].result # "raises"}

\* C3: a run makes exactly one browser-open invocation, and the port of the
\* URL it opens is the port the Server bound.
C3_OpenOnceOnBoundPort ==
    /\ Cardinality(Issued) <= 1
    /\ (t_pc = "t_done" => Cardinality(Issued) = 1)
    /\ \A i \in 1..Len(opens) : bound # -1 => opens[i].port = bound

\* C4: after a bind of start_server fails with address-in-use the next bind
\* is on the next port: the ports tried are p, p+1, ... with none skipped and
\* none repeated, every one before the last was in use when it was tried, and
\* the Server serves on the last one, which was free when it was tried.
C4_RetryNextPort ==
    /\ \A i \in 1..Len(binds) :
         /\ binds[i].port = port + (i - 1)
         /\ (i < Len(binds) => InUseFailure(binds[i]))
    /\ (binds # <<>> /\ InUseFailure(Last(binds))
          => \/ pc = "bind" /\ srv_port = Last(binds).port + 1
             \/ exc = "KeyboardInterrupt")
    /\ (pc = "bind" /\ binds = <<>> => srv_port = port)
    /\ (pc = "serving"
          => /\ Last(binds).kind = "ok"
             /\ bound = Last(binds).port
             /\ bound \in held)

C4_Witness ==
    /\ pc = "serving"
    /\ Len(binds) >= 2
    /\ bound = port + Len(binds) - 1

\* C5: a KeyboardInterrupt at any point of the run is caught: the shutdown
\* message is printed, the Server no longer serves and the exit status is 0.
C5_InterruptExitsZero ==
    exc = "KeyboardInterrupt"
    => /\ pc = "done"
       /\ held = {}
       /\ out # <<>>
       /\ Last(out).line = "stopped"
       /\ exit_status = 0

\* C6: find_available_port has returned before the Launcher thread is started
\* and before the first bind of start_server, and both are given the value it
\* returned.
C6_FinderFirst ==
    (t_pc # "unstarted" \/ binds # <<>> \/ pc \in {"started", "bind", "serving"})
    => /\ found # -1
       /\ probes # <<>>
       /\ Last(probes).kind = "ok"
       /\ Last(probes).port = found
       /\ t_pc # "unstarted"
       /\ t_port = found
       /\ (pc = "bind" /\ binds = <<>> => srv_port = found)
       /\ (binds # <<>> => binds[1].port = found)

C6_Witness ==
    /\ t_pc = "opening"
    /\ Len(binds) = 1
    /\ found > DefaultPort
    /\ binds[1].port = found
    /\ t_port = found

\* C7: a bind that fails with anything but address-in-use, in
\* find_available_port or in start_server, is the last bind of the run: the
\* error reaches the top level and the process exits with a non-zero status.
C7_OtherErrorFatal ==
    /\ \A i \in 1..Len(probes) :
         OtherError(probes[i])
         => /\ i = Len(probes)
            /\ binds = <<>>
            /\ pc = "done"
            /\ exc = probes[i].kind
            /\ exit_status > 0
    /\ \A i \in 1..Len(binds) :
         OtherError(binds[i])
         => /\ i = Len(binds)
            /\ pc = "done"
            /\ exc = binds[i].kind
            /\ exit_status > 0

C7_Witness ==
    /\ binds # <<>>
    /\ OtherError(Last(binds))
    /\ Len(binds) >= 2
    /\ pc = "done"

C7_WitnessFinder ==
    /\ probes # <<>>
    /\ OtherError(Last(probes))
    /\ Len(probes) >= 2

\* C8: the default-browser fallback is invoked, for the same URL, exactly when
\* the Safari invocation failed, and the line printed names the path that was
\* taken.
C8_FallbackOnFailure ==
    LauncherFinished
    => LET safariFailed == \E i \in 1..Len(opens) :
                              opens[i].via = "safari" /\ opens[i].result # "zero"
           fellBack == \E i \in 1..Len(opens) : opens[i].via = "default"
           said(l) == \E i \in 1..Len(out) : out[i].line = l
       IN  /\ safariFailed <=> fellBack
           /\ \A i \in 1..Len(opens) : opens[i].port = t_port
           /\ (said("opening_safari") => ~fellBack)
           /\ (said("opening_default") => fellBack)
           /\ (t_pc = "t_done" => said("opening_safari") \/ said("opening_default"))
\* C9: the Launcher neither blocks nor stops the Server.  A step of the
\* Launcher changes nothing of the main thread; whatever the Launcher is doing
\* the main thread can enter start_server and bind; and the Server stops
\* serving only by a KeyboardInterrupt.
C9_LauncherNeverBlocks ==
    [][/\ (opens' # opens \/ (t_pc = "sleeping" /\ t_pc' = "opening")
             => UNCHANGED mainVars)
       /\ (pc = "started" => ENABLED EnterTry)
       /\ (pc = "bind" => ENABLED ServerBind)
       /\ (pc = "serving" /\ pc' # "serving" => exc' = "KeyboardInterrupt")]_vars

C9_Witness ==
    /\ pc = "serving"
    /\ t_pc = "t_failed"
    /\ Len(opens) = 2

\* C10: with 8000 taken by another listener, 8001 free and no change of
\* occupancy, find_available_port returns 8001, the Server binds 8001 at its
\* first attempt and prints 8001, and the Launcher opens the URL of 8001.
C10_ConvergeOnNext ==
    (/\ start_port = DefaultPort
     /\ env_changes = 0
     /\ DefaultPort \in occupied
     /\ DefaultPort + 1 \notin occupied
     /\ denied \cap {DefaultPort, DefaultPort + 1} = {})
    => /\ exc \in {"none", "KeyboardInterrupt"}
       /\ (pc \notin {"find", "find_close"} /\ exc = "none" => found = DefaultPort + 1)
       /\ (found # -1 => found = DefaultPort + 1)
       /\ (pc = "serving" => bound = DefaultPort + 1)
       /\ \A i \in 1..Len(binds) :
            binds[i].port = DefaultPort + 1 /\ binds[i].kind = "ok"
       /\ \A i \in 1..Len(out) :
            /\ out[i].line # "in_use"
            /\ (out[i].line \in {"running", "opening_safari", "opening_default"}
                  => out[i].port = DefaultPort + 1)
       /\ \A i \in 1..Len(opens) : opens[i].port = DefaultPort + 1

C10_Witness ==
    /\ env_changes = 0
    /\ DefaultPort \in occupied
    /\ pc = "serving"
    /\ bound = DefaultPort + 1
    /\ t_pc = "t_done"
    /\ opens # <<>>
    /\ Last(opens).port = DefaultPort + 1

\* C11: when find_available_port raises "Could not find available port" the
\* run is over: the Launcher thread was never started, no browser-open was
\* invoked, start_server never bound, and the exit status is a failure.
C11_ExhaustionFatal ==
    exc = "PortExhausted"
    => /\ pc = "done"
       /\ found = -1
       /\ t_pc = "unstarted"
       /\ opens = <<>>
       /\ binds = <<>>
       /\ bound = -1
       /\ exit_status > 0

C11_Witness ==
    /\ exc = "PortExhausted"
    /\ Len(probes) = SearchSpan + 1
    /\ pc = "done"

\* C12: find_available_port probes P, P+1, ... in increasing order and no
\* further than P+100: at most 101 probes, the i-th on P+i-1; a returned port
\* lies in P..P+100; and P+100 is returned when it is the only free port of
\* the window.
C12_WindowOf101 ==
    /\ Len(probes) <= SearchSpan + 1
    /\ \A i \in 1..Len(probes) :
         /\ probes[i].port = start_port + (i - 1)
         /\ probes[i].port <= start_port + SearchSpan
    /\ (found # -1 => found \in Window(start_port))
    /\ (/\ FinderFinished
        /\ FreeAt(start_port + SearchSpan)
        /\ \A q \in start_port..(start_port + SearchSpan - 1) : ~FreeAt(q)
        /\ ~FinderOtherOSError)
       => found = start_port + SearchSpan

C12_Witness ==
    /\ found = start_port + SearchSpan
    /\ Len(probes) = SearchSpan + 1
    /\ Last(probes).kind = "ok"

\* C13: every port find_available_port or start_server tries to bind, and the
\* port given to the Launcher, is a 16-bit port number, whatever the starting
\* port and the occupied ports.
C13_PortsAre16Bit ==
    /\ \A i \in 1..Len(probes) : probes[i].port \in ValidPorts
    /\ \A i \in 1..Len(binds) : binds[i].port \in ValidPorts
    /\ (t_pc # "unstarted" => t_port \in ValidPorts)

\* C14: the probe sockets of find_available_port are closed before it returns
\* or raises.  The process holds a socket only on the port being probed and,
\* later, on the port the Server bound; none while start_server binds; so a
\* bind of start_server on the port found fails with address-in-use only when
\* another process took the port after the probe.
C14_ProbeReleased ==
    /\ (pc = "find" => held = {})
    /\ (pc = "find_close" => held = {port})
    /\ (found # -1 /\ pc # "serving" => held = {})
    /\ (pc = "done" => held = {})
    /\ (pc = "serving" => held = {bound})
    /\ (pc = "bind" /\ srv_port = found => (found \in occupied <=> ~ENABLED
          (ServerBind /\ pc' = "serving")))
    /\ (binds # <<>> /\ InUseFailure(binds[1]) => env_changes > 0)

C14_Witness ==
    /\ pc = "bind"
    /\ held = {}
    /\ binds # <<>>
    /\ binds[1].port = found
    /\ InUseFailure(binds[1])
    /\ env_changes = 1

\* C15: an interrupt while the Launcher is still pending ends the process
\* all the same: the interrupt is enabled whatever the Launcher does, the
\* exited process has no pending Launcher (it was abandoned, not awaited), and
\* nothing is opened or printed once the process has exited.
C15_LauncherAbandoned ==
    [][/\ (pc # "done" => ENABLED Interrupt)
       /\ (pc' = "done" => t_pc' \notin {"sleeping", "opening", "fallback"})
       /\ (pc # "done" /\ pc' = "done" /\ t_pc \in {"sleeping", "opening", "fallback"}
             => t_pc' = "abandoned" /\ opens' = opens)
       /\ (pc = "done" => opens' = opens /\ out' = out /\ t_pc' = t_pc)]_vars

C15_Witness ==
    /\ pc = "done"
    /\ exc = "KeyboardInterrupt"
    /\ exit_status = 0
    /\ t_pc = "abandoned"
    /\ opens = <<>>
====
